---------------------------- MODULE Spec2Model ----------------------------
(***************************************************************************)
(* A model of getnative (src/getnative/app.py): the evaluation scheduler   *)
(* inside GetNative.run, the peak detector GetNative.analyze_results and   *)
(* the set-up done by getnative() before a run starts.                     *)
(*                                                                         *)
(* Six specifications share the module.  Each one drives one part of the   *)
(* program and leaves the variables of the other parts at their initial    *)
(* values:                                                                 *)
(*   SpecSched  the scheduler loop of one frame (lines 180-195)            *)
(*   SpecPeak   the successive analyze_results calls of one run            *)
(*   Spec       getnative() from its entry to the start of the first scan  *)
(*   SpecAgg    the frame loop of one height scan (lines 157-200)          *)
(*   SpecRun    GetNative.run and the flags getnative() derives from it    *)
(*   SpecBatch  the predefined scalers and the kernel loop of _getnative() *)
(*                                                                         *)
(* Error values are floats in the program.  The model draws them from      *)
(* small naturals and keeps every quotient as an exact fraction <<n, d>>,  *)
(* so comparisons are those of the real numbers the floats stand for.      *)
(***************************************************************************)
EXTENDS Integers, Sequences, FiniteSets, TLC

VARIABLES
    \* ---- evaluation scheduler (GetNative.run, lines 180-195) ----
    num_threads,    \* core.num_threads
    full_clip_len,  \* len(full_clip): the number m of candidates
    oracle,         \* PlaneStatsAverage of each candidate frame
    frame_index,    \* the next index the for loop issues
    requests,       \* the get_frame_async calls made so far, in order
    tasks_pending,  \* the set tasks_pending (a task is named by its index)
    futures,        \* the dict futures: task -> frame_index
    completed,      \* the tasks whose future is done
    vals,           \* the list vals of (index, value) pairs
    curve,          \* the list vals after line 195 (values only)
    failed,         \* the done tasks whose result() raises
    exc,            \* the exception that ended the loop, if any
    pc              \* "for" | "wait" | "done" | "error"

schedVars == <<num_threads, full_clip_len, oracle, frame_index, requests,
               tasks_pending, futures, completed, vals, curve, failed, exc,
               pc>>

VARIABLES
    \* ---- peak detector (GetNative.analyze_results, lines 343-378) ----
    steps,          \* self.steps
    offset,         \* the offset argument (self.min_h)
    curve_len,      \* the length of the height curve of this run
    calls,          \* analyze_results calls made so far in this run
    resolutions,    \* self.resolutions (scan indices, in append order)
    a_vals,         \* the vals argument of the last call
    ratios,         \* ratios of the last call (exact fractions)
    bob_idx,        \* bob_idx of the last call
    bob,            \* bob of the last call
    bob_resolution, \* bob_resolution of the last call
    outcome         \* "none" | "ok" | "ValueError" | "IndexError"

peakVars == <<steps, offset, curve_len, calls, resolutions, a_vals,
              ratios, bob_idx, bob, bob_resolution, outcome>>

VARIABLES
    \* ---- getnative(), lines 428-506 ----
    argv,           \* the arguments as given (never changed)
    args,           \* the argparse namespace, as getnative() rewrites it
    env,            \* what the machine offers: write access, imwri, descale
    src,            \* the source clip: num_frames, height
    frames,         \* the frame sample set (line 468)
    scans,          \* scans started so far
    error,          \* the exception raised: its type and line
    gpc             \* the position inside getnative()

cfgVars == <<argv, args, env, src, frames, scans, error, gpc>>

VARIABLES
    \* ---- the frame loop of one height scan (GetNative.run, 157-200) ----
    agg_frames,     \* self.frames, in the order the loop takes them
    frame_vals,     \* the curve the scheduler returns for each frame
    sample_size,    \* sample_size = len(self.frames)
    sampled_vals,   \* sampled_vals
    agg_k,          \* how many frames the loop has processed
    mean_vals,      \* vals after line 200 (exact fractions)
    apc             \* "frames" | "done"

aggVars == <<agg_frames, frame_vals, sample_size, sampled_vals, agg_k,
             mean_vals, apc>>

VARIABLES
    \* ---- the kernel batch (_getnative, lines 509-561) ----
    plugin,         \* core has a descale plugin (scaler.plugin is not None)
    missing,        \* the kernels k whose De<k> the plugin lacks
    mode,           \* args.mode ("None" when not given)
    profile,        \* what the runs of this batch give, by kernel family
    mode_list,      \* the list `mode`
    bi,             \* position of the for loop in mode_list (from 1)
    skipped,        \* the scalers passed over by `continue`
    evaluated,      \* the scalers whose getnative() call returned
    res_dict,       \* res_dict
    mae_dict,       \* mae_dict
    ub_dict,        \* ub_dict
    report,         \* what lines 551-561 print
    berror,         \* the exception that ended the batch, if any
    bpc             \* "import" | "mode" | "loop" | "done" | "raised"

batchVars == <<plugin, missing, mode, profile, mode_list, bi, skipped,
               evaluated, res_dict, mae_dict, ub_dict, report, berror, bpc>>

VARIABLES
    \* ---- one run (GetNative.run, lines 144-333) ----
    rsrc,           \* the source clip: width, height
    rargs,          \* args as getnative() passes them on at line 486
    self_ar,        \* self.ar
    ar,             \* the local ar of run(), line 155
    pass,           \* the pass counter p of line 157
    w_vals,         \* the summed curve of the last width scan
    window,         \* h, w_min, w_max, w_sample_size of the last width phase
    best_w,         \* best_w of the last width phase
    scan_widths,    \* the widths the last height scan asked for
    trace,          \* the names of the phases executed so far
    returned,       \* what getnative() returns
    rerror,         \* the exception that ended the run, if any
    rpc             \* "enter" | "height" | "width" | "final" | "returned"
                    \* | "done" | "raised"

runVars == <<rsrc, rargs, self_ar, ar, pass, w_vals, window, best_w,
             scan_widths, trace, returned, rerror, rpc>>

vars == <<schedVars, peakVars, cfgVars, aggVars, batchVars, runVars>>

-----------------------------------------------------------------------------
(* Bounds of the model                                                     *)

MaxThreads == 1
MaxCandidates == 4
MaxErr == 1
MaxPasses == 1
MaxSteps == 2
Margin == 3
Baseline == 4
MaxFrame == 3
MaxSamples == 3
MaxH == 4

\* Program constants
MinSep == 20
TopN == 5

-----------------------------------------------------------------------------
(* Helpers                                                                 *)

\* All orders in which a set can be iterated (Python sets are unordered).
Orderings(S) ==
    { s \in [1..Cardinality(S) -> S] :
        \A i, j \in 1..Cardinality(S) : i # j => s[i] # s[j] }

\* Python's tuple order on (index, value) pairs.
PairLess(p, q) == p[1] < q[1] \/ (p[1] = q[1] /\ p[2] < q[2])

RECURSIVE Insert(_, _)
Insert(p, s) ==
    IF s = <<>> THEN <<p>>
    ELSE IF PairLess(p, Head(s)) \/ p = Head(s) THEN <<p>> \o s
    ELSE <<Head(s)>> \o Insert(p, Tail(s))

RECURSIVE InsertionSort(_)
InsertionSort(s) ==
    IF s = <<>> THEN <<>> ELSE Insert(Head(s), InsertionSort(Tail(s)))

Unsorted(s) == s

\* sorted(vals), line 195
Sorted(s) == InsertionSort(s)

\* [v for _, v in sorted(vals)], line 195
ValuesOf(s) == [i \in 1..Len(s) |-> s[i][2]]

-----------------------------------------------------------------------------
(* The evaluation scheduler                                                *)

LoopCondLoose(n, threads) == n > threads + 2

\* while len(tasks_pending) >= core.num_threads + 2, line 189
LoopCond(n, threads) == n >= threads + 2

DrainReadyFirst(pending, done) == pending \cap done # {}

\* asyncio.wait(tasks_pending) returns when every task is done, line 193
DrainReady(pending, done) == pending \subseteq done

\* asyncio.wait(..., FIRST_COMPLETED) returns when some task is done, line 190
WaitReady(pending, done) == pending \cap done # {}

\* vals += [(futures.pop(task), task.result()...) for task in tasks_done]
Collected(order) == [i \in 1..Len(order) |-> <<futures[order[i]], oracle[order[i]]>>]

\* The tasks whose futures.pop ran before result() raised: those up to the
\* first failed task in the order the comprehension takes them.
PoppedBefore(order) ==
    LET k == CHOOSE i \in 1..Len(order) :
                 /\ order[i] \in failed
                 /\ \A j \in 1..(i - 1) : order[j] \notin failed
    IN {order[i] : i \in 1..k}

SchedInit ==
    /\ num_threads \in 1..MaxThreads
    /\ full_clip_len \in 0..MaxCandidates
    /\ oracle \in [0..(full_clip_len - 1) -> 0..MaxErr]
    /\ frame_index = 0
    /\ requests = <<>>
    /\ tasks_pending = {}
    /\ futures = <<>>
    /\ completed = {}
    /\ vals = <<>>
    /\ curve = <<>>
    /\ failed = {}
    /\ exc = "none"
    /\ pc = "for"

\* One iteration of the for loop up to the while test, lines 184-189.
Issue ==
    /\ pc = "for"
    /\ frame_index < full_clip_len
    /\ requests' = Append(requests, frame_index)
    /\ tasks_pending' = tasks_pending \cup {frame_index}
    /\ futures' = [t \in DOMAIN futures \cup {frame_index} |->
                     IF t = frame_index THEN frame_index ELSE futures[t]]
    /\ frame_index' = frame_index + 1
    /\ pc' = IF LoopCond(Cardinality(tasks_pending'), num_threads)
             THEN "wait" ELSE "for"
    /\ UNCHANGED <<num_threads, full_clip_len, oracle, completed, vals, curve,
                   failed, exc>>
    /\ UNCHANGED <<peakVars, cfgVars, aggVars, batchVars, runVars>>

\* The oracle finishes a request: its future becomes done.
OracleComplete ==
    /\ pc \in {"for", "wait"}
    /\ \E t \in tasks_pending \ completed : completed' = completed \cup {t}
    /\ UNCHANGED <<num_threads, full_clip_len, oracle, frame_index, requests,
                   tasks_pending, futures, vals, curve, failed, exc, pc>>
    /\ UNCHANGED <<peakVars, cfgVars, aggVars, batchVars, runVars>>

\* The oracle fails a request: its future is done and holds an exception.
\* One failure is enough to end the loop, so at most one is modelled.
OracleFail ==
    /\ pc \in {"for", "wait"}
    /\ failed = {}
    /\ \E t \in tasks_pending \ completed :
          /\ completed' = completed \cup {t}
          /\ failed' = {t}
    /\ UNCHANGED <<num_threads, full_clip_len, oracle, frame_index, requests,
                   tasks_pending, futures, vals, curve, exc, pc>>
    /\ UNCHANGED <<peakVars, cfgVars, aggVars, batchVars, runVars>>

\* The body of the while loop, lines 190-191, and its next test.
Wait ==
    /\ pc = "wait"
    /\ WaitReady(tasks_pending, completed)
    /\ LET tasks_done == tasks_pending \cap completed IN
       /\ tasks_pending' = tasks_pending \ tasks_done
       /\ IF ~(tasks_done \subseteq DOMAIN futures)
          THEN \* futures.pop raises KeyError
               /\ pc' = "error"
               /\ exc' = "KeyError"
               /\ UNCHANGED <<vals, futures>>
          ELSE IF tasks_done \cap failed # {}
          THEN \* task.result() raises the oracle's exception
               /\ \E order \in Orderings(tasks_done) :
                     futures' = [t \in DOMAIN futures \ PoppedBefore(order)
                                   |-> futures[t]]
               /\ pc' = "error"
               /\ exc' = "Error"
               /\ UNCHANGED vals
          ELSE /\ \E order \in Orderings(tasks_done) :
                     vals' = vals \o Collected(order)
               /\ futures' = [t \in DOMAIN futures \ tasks_done |-> futures[t]]
               /\ pc' = IF LoopCond(Cardinality(tasks_pending'), num_threads)
                        THEN "wait" ELSE "for"
               /\ UNCHANGED exc
    /\ UNCHANGED <<num_threads, full_clip_len, oracle, frame_index, requests,
                   completed, curve, failed>>
    /\ UNCHANGED <<peakVars, cfgVars, aggVars, batchVars, runVars>>

\* asyncio.wait raises ValueError on an empty set, line 193.
DrainEmpty ==
    /\ pc = "for"
    /\ frame_index = full_clip_len
    /\ tasks_pending = {}
    /\ pc' = "error"
    /\ exc' = "ValueError"
    /\ UNCHANGED <<num_threads, full_clip_len, oracle, frame_index, requests,
                   tasks_pending, futures, completed, vals, curve, failed>>
    /\ UNCHANGED <<peakVars, cfgVars, aggVars, batchVars, runVars>>

\* The final drain and the sort, lines 193-195.
Drain ==
    /\ pc = "for"
    /\ frame_index = full_clip_len
    /\ tasks_pending # {}
    /\ DrainReady(tasks_pending, completed)
    /\ LET tasks_done == tasks_pending \cap completed IN
       IF ~(tasks_done \subseteq DOMAIN futures)
       THEN /\ pc' = "error"
            /\ exc' = "KeyError"
            /\ UNCHANGED <<vals, futures, curve>>
       ELSE IF tasks_done \cap failed # {}
       THEN /\ \E order \in Orderings(tasks_done) :
                  futures' = [t \in DOMAIN futures \ PoppedBefore(order)
                                |-> futures[t]]
            /\ pc' = "error"
            /\ exc' = "Error"
            /\ UNCHANGED <<vals, curve>>
       ELSE /\ \E order \in Orderings(tasks_done) :
                  /\ vals' = vals \o Collected(order)
                  /\ curve' = ValuesOf(Sorted(vals'))
            /\ futures' = [t \in DOMAIN futures \ tasks_done |-> futures[t]]
            /\ pc' = "done"
            /\ UNCHANGED exc
    /\ UNCHANGED <<num_threads, full_clip_len, oracle, frame_index, requests,
                   tasks_pending, completed, failed>>
    /\ UNCHANGED <<peakVars, cfgVars, aggVars, batchVars, runVars>>

SchedNext ==
    Issue \/ OracleComplete \/ OracleFail \/ Wait \/ DrainEmpty \/ Drain

-----------------------------------------------------------------------------
(* Exact fractions <<n, d>>, d > 0, in lowest terms                        *)

RECURSIVE Gcd(_, _)
Gcd(a, b) == IF b = 0 THEN a ELSE Gcd(b, a % b)

Frac(n, d) == IF n = 0 THEN <<0, 1>> ELSE <<n \div Gcd(n, d), d \div Gcd(n, d)>>

FracLess(x, y) == x[1] * y[2] < y[1] * x[2]

-----------------------------------------------------------------------------
(* The peak detector                                                       *)

\* ratios.append(current and last / current), lines 344-348
RatiosFrom(vs, i) ==
    [k \in 1..(Len(vs) - i + 1) |->
        LET j == k + i - 1 IN
        IF vs[j] = 0 THEN <<0, 1>> ELSE Frac(vs[j - 1], vs[j])]

RatiosInverted(vs) ==
    [i \in 1..Len(vs) |->
        IF i = 1 \/ vs[i] = 0 \/ vs[i - 1] = 0 THEN <<0, 1>>
        ELSE Frac(vs[i], vs[i - 1])]

RatiosSeeded(vs) == <<Frac(vs[1], 1)>> \o RatiosFrom(vs, 2)

\* ratios = [0.0] and the loop over range(1, len(vals)), lines 344-348
Ratios(vs) == <<(<<0, 1>>)>> \o RatiosFrom(vs, 2)

\* sorted(ratios, reverse=True), line 349
SortedDesc(s) ==
    LET n == Len(s)
        \* the place of s[i]: after every larger value and after the equal
        \* values that stand before it
        place == [i \in 1..n |->
                    Cardinality({j \in 1..n :
                        \/ FracLess(s[i], s[j])
                        \/ s[j] = s[i] /\ j < i}) + 1]
    IN [k \in 1..n |-> s[CHOOSE i \in 1..n : place[i] = k]]

\* s - 1 > (max_difference - 1) * 0.33, line 352
Passes(s, max_difference) ==
    100 * max_difference[2] * (s[1] - s[2])
        > 33 * s[2] * (max_difference[1] - max_difference[2])

Filter(s, max_difference) ==
    SelectSeq(s, LAMBDA x : Passes(x, max_difference))

TruncateNone(s) == s

\* [...][:5], line 352
Truncate(s) == IF Len(s) <= TopN THEN s ELSE SubSeq(s, 1, TopN)

\* differences, lines 349-352
Differences(rs) ==
    LET sorted_array == SortedDesc(rs)
        max_difference == sorted_array[1]
    IN Truncate(Filter(sorted_array, max_difference))

\* ratios.index(diff), line 355 (0-based)
IndexOf(rs, diff) == (CHOOSE i \in 1..Len(rs) :
                        /\ rs[i] = diff
                        /\ \A j \in 1..(i - 1) : rs[j] # diff) - 1

TooCloseOneSided(res, current) == res - MinSep < current /\ current <= res

\* res - 20 < current < res + 20, line 358
TooClose(res, current) == res - MinSep < current /\ current < res + MinSep

AccumulateLast(res, rs, diffs) ==
    IF diffs = <<>> THEN res ELSE <<IndexOf(rs, Head(diffs))>>

\* The for loop over differences, lines 354-361.
RECURSIVE Accumulate(_, _, _)
Accumulate(res, rs, diffs) ==
    IF diffs = <<>> THEN res
    ELSE LET current == IndexOf(rs, Head(diffs)) IN
         IF \E k \in 1..Len(res) : TooClose(res[k], current)
         THEN Accumulate(res, rs, Tail(diffs))
         ELSE Accumulate(Append(res, current), rs, Tail(diffs))

ArgFirst(rs, res) == 0

\* np.argmax(np.array(ratios)[self.resolutions]), line 363 (0-based)
ArgMax(rs, res) == (CHOOSE k \in 1..Len(res) :
                      /\ \A j \in 1..Len(res) :
                            ~FracLess(rs[res[k] + 1], rs[res[j] + 1])
                      /\ \A j \in 1..(k - 1) :
                            FracLess(rs[res[j] + 1], rs[res[k] + 1])) - 1

-----------------------------------------------------------------------------
(* The error curves the model feeds to the peak detector: a flat curve at  *)
(* Baseline with up to two dips, placed so that two dips can lie fewer     *)
(* than MinSep, exactly MinSep, or more than MinSep positions apart.       *)

CurveLen == MinSep + Margin

\* The curve [1.0, 1.0, 1.0, 0.1, 1.0, 1.0], in tenths.
ScenarioCurve == <<10, 10, 10, 1, 10, 10>>

\* Long enough for TopN + 1 peaks that are MinSep positions apart.
LongLen == (TopN + 1) * MinSep + Margin

CurveLens == {1, 2, Len(ScenarioCurve), CurveLen, LongLen}

DipPositions(m) == {i \in {1, Margin - 1, MinSep + 1} : i < m} \cup {m - 1}

DipLevels == {0, 1, 2, Baseline - 1}

CurvesOfLen(m) ==
    { [i \in 1..m |-> IF i - 1 = d[1] THEN d[2]
                      ELSE IF i - 1 = d[3] THEN d[4] ELSE Baseline] :
        d \in { e \in DipPositions(m) \X (DipLevels \cup {Baseline})
                      \X DipPositions(m) \X (DipLevels \cup {Baseline}) :
                  e[1] <= e[3] } }

\* A comb: teeth dips to 1 at the odd positions 1, 3, ..., each a ratio of
\* Baseline, and one more dip at the last position, MinSep or more away.
CombCurves(m) ==
    IF m - 1 < MinSep + 1 \/ m - 1 <= 2 * TopN THEN {}
    ELSE { [i \in 1..m |-> IF (i - 1) % 2 = 1 /\ i - 1 < 2 * c[1] THEN 1
                           ELSE IF i = m THEN c[2] ELSE Baseline] :
             c \in {TopN - 1, TopN} \X {2, Baseline} }

\* Twin peaks: a flat curve at 12 whose last two values are either 4, 2
\* (ratios 3 and 2) or 6, 2 (ratios 2 and 3), with or without an early dip
\* to 4 at position 1 (ratio 3), MinSep or more before both of them.
TwinCurves(m) ==
    IF m - 3 < MinSep THEN {}
    ELSE { [i \in 1..m |-> IF i = m THEN 2
                           ELSE IF i = m - 1 THEN c[1]
                           ELSE IF i = 2 /\ c[2] THEN 4 ELSE 12] :
             c \in {4, 6} \X BOOLEAN }

\* Spread peaks: a flat curve at 840 with dips at the positions 1,
\* 1 + MinSep, 1 + 2 MinSep, ... to 105, 120, 140, 168, 210 and 240, in the
\* order c[1] says, which are the ratios 8, 7, 6, 5, 4 and 7/2; all of them
\* pass the threshold (8 - 1) * 0.33.  Only the first c[2] dips are there.
SpreadLevels == <<105, 120, 140, 168, 210, 240>>

SpreadCurves(m) ==
    IF m < LongLen THEN {}
    ELSE { [i \in 1..m |->
              IF (i - 2) % MinSep = 0 /\ (i - 2) \div MinSep < c[2]
              THEN SpreadLevels[IF c[1] THEN (i - 2) \div MinSep + 1
                                ELSE TopN + 1 - (i - 2) \div MinSep]
              ELSE 840] :
             c \in BOOLEAN \X {1, TopN, TopN + 1} }

CurveTable ==
    [m \in CurveLens |->
        IF m >= LongLen THEN SpreadCurves(m) ELSE
        CurvesOfLen(m) \cup CombCurves(m) \cup TwinCurves(m)
            \cup {c \in {ScenarioCurve} : Len(c) = m}]

\* ratios and differences of every curve, computed once
Analysed ==
    [vs \in UNION {CurveTable[m] : m \in CurveLens} |->
        LET rs == Ratios(vs) IN [ratios |-> rs, differences |-> Differences(rs)]]

-----------------------------------------------------------------------------
(* One run's analyze_results calls: run() calls it once per pass (line     *)
(* 202) and once more after the passes (line 296), each time on a height   *)
(* curve of the same length.                                               *)

PeakInit ==
    /\ steps \in 1..MaxSteps
    /\ offset = 500
    /\ curve_len \in CurveLens
    /\ calls = 0
    /\ resolutions = <<>>
    /\ a_vals = <<>>
    /\ ratios = <<>>
    /\ bob_idx = -1
    /\ bob = -1
    /\ bob_resolution = -1
    /\ outcome = "none"

\* analyze_results(vals, self.min_h), lines 343-378
analyze_results(vs) ==
    LET rs == Analysed[vs].ratios
        res == Accumulate(resolutions, rs, Analysed[vs].differences)
    IN
    /\ a_vals' = vs
    /\ ratios' = rs
    /\ resolutions' = res
    /\ calls' = calls + 1
    /\ IF res = <<>>
       THEN \* np.argmax of an empty array raises ValueError
            /\ outcome' = "ValueError"
            /\ UNCHANGED <<bob_idx, bob, bob_resolution>>
       ELSE LET idx == ArgMax(rs, res) IN
            /\ bob_idx' = idx
            /\ IF idx < Len(vs)
               THEN /\ bob' = vs[idx + 1]
                    /\ bob_resolution' = res[idx + 1] * steps + offset
                    /\ outcome' = "ok"
               ELSE /\ outcome' = "IndexError"
                    /\ UNCHANGED <<bob, bob_resolution>>
    /\ UNCHANGED <<steps, offset, curve_len>>

\* A height scan has produced its mean curve; the run analyses it.  A run
\* of p passes makes p + 1 calls, so every run of at most MaxPasses passes
\* is a prefix of the behaviours below.
Analyze ==
    /\ outcome \in {"none", "ok"}
    /\ calls <= MaxPasses
    /\ \E vs \in CurveTable[curve_len] : analyze_results(vs)
    /\ UNCHANGED <<schedVars, cfgVars, aggVars, batchVars, runVars>>

PeakNext == Analyze

-----------------------------------------------------------------------------
(* getnative(): the checks and rewrites before GetNative.run starts        *)

NoError == [type |-> "none", line |-> 0]

Raise(type, line) == [type |-> type, line |-> line]

LinspaceKeepFirst(start, stop, num) ==
    [k \in 1..num |-> start + ((k - 1) * (stop - start)) \div num]

\* np.linspace(start, stop, num, dtype=int, endpoint=False)[1:], line 468:
\* element k of the full array is floor(start + k * (stop - start) / num),
\* k = 0..num-1, and [1:] drops element 0.
Linspace(start, stop, num) ==
    [k \in 1..(num - 1) |-> start + (k * (stop - start)) \div num]

MinHTooLargeStrict(a, s) == a.min_h > s.height

\* args.min_h >= src.height, line 478
MinHTooLarge(a, s) == a.min_h >= s.height

\* args.min_h >= args.max_h, line 480
MinHNotBelowMaxH(a) == a.min_h >= a.max_h

\* lines 473-476
DefaultHeights(a, s) ==
    [a EXCEPT !.min_h = IF a.min_h < 0 THEN s.height \div 2 ELSE a.min_h,
              !.max_h = IF a.max_h < 0 THEN (s.height * 9) \div 10 ELSE a.max_h]

Args ==
    [fstart : 0..MaxFrame, fend : 0..MaxFrame, fend_none : BOOLEAN,
     fsamples : (-2)..MaxSamples, min_h : (-1)..MaxH, max_h : (-1)..MaxH]

Envs == [writable : BOOLEAN, imwri : BOOLEAN,
         descale : {"ok", "no plugin", "no kernel"}]

CfgInit ==
    /\ argv \in {a \in Args : a.fend_none => a.fend = 0}
    /\ args = argv
    /\ env \in {e \in Envs : ~e.writable => (e.imwri /\ e.descale = "ok")}
    /\ src \in [num_frames : {MaxFrame + 1}, height : 1..(MaxH - 1)]
    /\ frames = <<>>
    /\ scans = 0
    /\ error = NoError
    /\ gpc = "environment"

\* lines 443-457: the output directory, imwri, the scaler
CheckEnvironment ==
    /\ gpc = "environment"
    /\ IF ~env.writable
       THEN error' = Raise("PermissionError", 445) /\ gpc' = "raised"
       ELSE IF ~env.imwri
       THEN error' = Raise("GetnativeException", 449) /\ gpc' = "raised"
       ELSE IF env.descale = "no kernel"
       THEN error' = Raise("GetnativeException", 79) /\ gpc' = "raised"
       ELSE IF env.descale = "no plugin"
       THEN error' = Raise("GetnativeException", 457) /\ gpc' = "raised"
       ELSE error' = error /\ gpc' = "frames"
    /\ UNCHANGED <<argv, args, env, src, frames, scans>>
    /\ UNCHANGED <<schedVars, peakVars, aggVars, batchVars, runVars>>

\* lines 465-468: the frame selector
SelectFrames ==
    /\ gpc = "frames"
    /\ LET fend == IF args.fend_none THEN src.num_frames ELSE args.fend IN
       /\ args' = [args EXCEPT !.fend = fend, !.fend_none = FALSE]
       /\ IF args.fsamples + 1 < 0
          THEN \* np.linspace: the number of samples must be non-negative
               /\ error' = Raise("ValueError", 468)
               /\ gpc' = "raised"
               /\ frames' = frames
          ELSE /\ frames' = Linspace(args.fstart, fend, args.fsamples + 1)
               /\ error' = error
               /\ gpc' = "heights"
    /\ UNCHANGED <<argv, env, src, scans>>
    /\ UNCHANGED <<schedVars, peakVars, aggVars, batchVars, runVars>>

\* lines 473-484: the height range
CheckHeights ==
    /\ gpc = "heights"
    /\ LET a == DefaultHeights(args, src) IN
       IF MinHTooLarge(a, src)
       THEN args' = a /\ error' = Raise("GetnativeException", 479)
            /\ gpc' = "raised"
       ELSE IF MinHNotBelowMaxH(a)
       THEN args' = a /\ error' = Raise("GetnativeException", 481)
            /\ gpc' = "raised"
       ELSE /\ args' = IF a.max_h > src.height
                       THEN [a EXCEPT !.max_h = src.height] ELSE a
            /\ error' = error
            /\ gpc' = "construct"
    /\ UNCHANGED <<argv, env, src, frames, scans>>
    /\ UNCHANGED <<schedVars, peakVars, aggVars, batchVars, runVars>>

\* lines 486-487: GetNative.__init__ calls get_filename, which reads
\* frames[0] and frames[-1] (lines 419-425)
Construct ==
    /\ gpc = "construct"
    /\ IF Len(frames) = 0
       THEN error' = Raise("IndexError", 421) /\ gpc' = "raised"
       ELSE error' = error /\ gpc' = "run"
    /\ UNCHANGED <<argv, args, env, src, frames, scans>>
    /\ UNCHANGED <<schedVars, peakVars, aggVars, batchVars, runVars>>

\* line 489: run() starts its first scan (line 161, or 257 with no passes)
StartScan ==
    /\ gpc = "run"
    /\ scans' = scans + 1
    /\ gpc' = "scanning"
    /\ UNCHANGED <<argv, args, env, src, frames, error>>
    /\ UNCHANGED <<schedVars, peakVars, aggVars, batchVars, runVars>>

CfgNext ==
    CheckEnvironment \/ SelectFrames \/ CheckHeights \/ Construct \/ StartScan

-----------------------------------------------------------------------------
(* The frame loop of a height scan: every sampled frame is scanned, its    *)
(* curve is added to sampled_vals, and the sum is divided by the number of *)
(* frames (lines 157-200).  The scheduler's part is its result, the curve  *)
(* of the frame.                                                           *)

\* the curves of two candidates
FrameCurves == (0..MaxErr) \X (0..MaxErr)

AddKeepLast(v, s) == v

\* np.array(vals) + sampled_vals, line 196
Add(v, s) == [i \in 1..Len(v) |-> v[i] + s[i]]

\* sampled_vals = 0. (line 159) broadcasts to the zero curve at the first
\* addition.
AggInit ==
    /\ \E n \in 1..MaxSamples :
          /\ agg_frames \in Orderings(1..n)
          /\ frame_vals \in [1..n -> FrameCurves]
          /\ sample_size = n
    /\ sampled_vals = <<0, 0>>
    /\ agg_k = 0
    /\ mean_vals = <<>>
    /\ apc = "frames"

\* One turn of `for frame in self.frames`, lines 161-196.
AddFrame ==
    /\ apc = "frames"
    /\ agg_k < Len(agg_frames)
    /\ sampled_vals' = Add(frame_vals[agg_frames[agg_k + 1]], sampled_vals)
    /\ agg_k' = agg_k + 1
    /\ UNCHANGED <<agg_frames, frame_vals, sample_size, mean_vals, apc>>
    /\ UNCHANGED <<schedVars, peakVars, cfgVars, batchVars, runVars>>

\* vals = sampled_vals / sample_size, lines 198-200.
Mean ==
    /\ apc = "frames"
    /\ agg_k = Len(agg_frames)
    /\ mean_vals' = [i \in 1..Len(sampled_vals) |->
                        Frac(sampled_vals[i], sample_size)]
    /\ apc' = "done"
    /\ UNCHANGED <<agg_frames, frame_vals, sample_size, sampled_vals, agg_k>>
    /\ UNCHANGED <<schedVars, peakVars, cfgVars, batchVars, runVars>>

AggNext == AddFrame \/ Mean

-----------------------------------------------------------------------------
(* The kernel batch: the scalers built when the module is loaded           *)
(* (common_scaler, lines 97-120) and the loop of _getnative() over the     *)
(* scalers of the chosen mode (lines 522-561).                             *)

Scaler(k, n) == [kernel |-> k, n |-> n]

\* `None` in the list mode: getnative() builds the scaler from args.kernel
NoneScaler == Scaler("None", 0)

\* common_scaler, lines 97-120: one bilinear, eight bicubic, four lanczos
\* and three spline scalers
common_scaler ==
    [bilinear |-> <<Scaler("bilinear", 1)>>,
     bicubic  |-> [i \in 1..8 |-> Scaler("bicubic", i)],
     lanczos  |-> [i \in 1..4 |-> Scaler("lanczos", i)],
     spline   |-> <<Scaler("spline16", 1), Scaler("spline36", 1),
                    Scaler("spline64", 1)>>]

\* [s for scaler in common_scaler.values() for s in scaler], line 531
AllScalers ==
    common_scaler.bilinear \o common_scaler.bicubic \o common_scaler.lanczos
        \o common_scaler.spline

Kernels == {AllScalers[i].kernel : i \in 1..Len(AllScalers)}

Families == {"bilinear", "bicubic", "lanczos", "spline"}

Family(k) == IF k \in {"spline16", "spline36", "spline64"} THEN "spline" ELSE k

\* _DefineScaler.__init__, lines 57-65: without the plugin the constructor
\* returns before check_input; with it, a kernel the plugin lacks raises.
DefineScalerRaises(k) == plugin /\ k \in missing

\* check_input, lines 75-79
CheckInputLine(k) == IF k = "spline64" THEN 77 ELSE 79

\* the list `mode`, lines 522-531
ModeList(m) ==
    CASE m = "bilinear" -> <<common_scaler.bilinear[1]>>
      [] m = "bicubic"  -> common_scaler.bicubic
      [] m = "bl-bc"    -> Append(common_scaler.bicubic,
                                  common_scaler.bilinear[1])
      [] m = "all"      -> AllScalers
      [] OTHER          -> <<NoneScaler>>

\* args.kernel, the parser's default (line 567)
ArgsKernel == "bicubic"

KernelOf(scaler) == IF scaler = NoneScaler THEN ArgsKernel ELSE scaler.kernel

\* What getnative() returns for the scaler at position i of the list.
RunResult(scaler, i) ==
    [res           |-> <<720, 1280>>,
     mae           |-> CASE profile.mae = "rising"  -> i
                         [] profile.mae = "falling" -> Len(mode_list) + 1 - i
                         [] OTHER                   -> 1,
     overstretched |-> Family(KernelOf(scaler)) \in profile.stretched,
     near_ub       |-> profile.near_ub]

RetainAlways(result) == TRUE

\* `if not overstretched:`, line 546
Retain(result) == ~result.overstretched

\* `if scaler is not None and scaler.plugin is None`, line 539
SkipCondition(scaler) == scaler # NoneScaler /\ ~plugin

\* f with the key k set to v
Put(f, k, v) == [x \in DOMAIN f \cup {k} |-> IF x = k THEN v ELSE f[x]]

\* min(mae_dict, key=mae_dict.get), line 553: the first inserted key of
\* least mae; keys are inserted in list order
BestScaler ==
    LET pos == {i \in 1..Len(mode_list) : mode_list[i] \in DOMAIN mae_dict}
        best == CHOOSE i \in pos :
                    \A j \in pos :
                        \/ mae_dict[mode_list[i]] < mae_dict[mode_list[j]]
                        \/ (mae_dict[mode_list[i]] = mae_dict[mode_list[j]]
                              /\ i <= j)
    IN mode_list[best]

BatchInit ==
    /\ plugin \in BOOLEAN
    /\ missing \in {{}, {"spline64"}, {"bicubic"}}
    /\ mode \in {"None", "bilinear", "bicubic", "bl-bc", "all"}
    /\ profile \in [stretched : SUBSET Families,
                     mae : {"rising", "falling", "flat"},
                     near_ub : BOOLEAN,
                     raises : {"none", "bilinear", "lanczos"}]
    /\ mode_list = <<>>
    /\ bi = 0
    /\ skipped = {}
    /\ evaluated = {}
    /\ res_dict = <<>>
    /\ mae_dict = <<>>
    /\ ub_dict = <<>>
    /\ report = [kind |-> "none"]
    /\ berror = NoError
    /\ bpc = "import"

\* Loading the module builds common_scaler, lines 97-120: the first scaler
\* whose kernel the plugin lacks raises out of the import.
LoadModule ==
    /\ bpc = "import"
    /\ LET bad == {i \in 1..Len(AllScalers) :
                     DefineScalerRaises(AllScalers[i].kernel)}
       IN IF bad = {}
          THEN /\ bpc' = "mode"
               /\ UNCHANGED berror
          ELSE LET first == CHOOSE i \in bad : \A j \in bad : i <= j IN
               /\ bpc' = "raised"
               /\ berror' = Raise("GetnativeException",
                                  CheckInputLine(AllScalers[first].kernel))
    /\ UNCHANGED <<plugin, missing, mode, profile, mode_list, bi, skipped,
                   evaluated, res_dict, mae_dict, ub_dict, report>>
    /\ UNCHANGED <<schedVars, peakVars, cfgVars, aggVars, runVars>>

\* _getnative() picks the list of scalers, lines 522-535.
SelectMode ==
    /\ bpc = "mode"
    /\ mode_list' = ModeList(mode)
    /\ bi' = 1
    /\ bpc' = "loop"
    /\ UNCHANGED <<plugin, missing, mode, profile, skipped, evaluated,
                   res_dict, mae_dict, ub_dict, report, berror>>
    /\ UNCHANGED <<schedVars, peakVars, cfgVars, aggVars, runVars>>

\* The warning and `continue` of lines 539-541.
SkipScaler ==
    /\ bpc = "loop"
    /\ bi <= Len(mode_list)
    /\ SkipCondition(mode_list[bi])
    /\ skipped' = skipped \cup {mode_list[bi]}
    /\ bi' = bi + 1
    /\ UNCHANGED <<plugin, missing, mode, profile, mode_list, evaluated,
                   res_dict, mae_dict, ub_dict, report, berror, bpc>>
    /\ UNCHANGED <<schedVars, peakVars, cfgVars, aggVars, runVars>>

\* One getnative() call and the bookkeeping after it, lines 542-549.
RunScaler ==
    /\ bpc = "loop"
    /\ bi <= Len(mode_list)
    /\ ~SkipCondition(mode_list[bi])
    /\ LET scaler == mode_list[bi]
           result == RunResult(scaler, bi)
       IN
       IF scaler = NoneScaler /\ DefineScalerRaises(ArgsKernel)
       THEN \* _DefineScaler(args.kernel, ...) at line 452
            /\ berror' = Raise("GetnativeException",
                               CheckInputLine(ArgsKernel))
            /\ bpc' = "raised"
            /\ UNCHANGED <<bi, evaluated, res_dict, mae_dict, ub_dict>>
       ELSE IF ~plugin
       THEN \* 'No descale found!'
            /\ berror' = Raise("GetnativeException", 457)
            /\ bpc' = "raised"
            /\ UNCHANGED <<bi, evaluated, res_dict, mae_dict, ub_dict>>
       ELSE IF Family(KernelOf(scaler)) = profile.raises
       THEN \* the run raised ValueError
            /\ berror' = Raise("GetnativeException", 491)
            /\ bpc' = "raised"
            /\ UNCHANGED <<bi, evaluated, res_dict, mae_dict, ub_dict>>
       ELSE /\ evaluated' = evaluated \cup {scaler}
            /\ IF Retain(result)
               THEN /\ res_dict' = Put(res_dict, scaler, result.res)
                    /\ mae_dict' = Put(mae_dict, scaler, result.mae)
                    /\ ub_dict' = Put(ub_dict, scaler, result.near_ub)
               ELSE UNCHANGED <<res_dict, mae_dict, ub_dict>>
            /\ bi' = bi + 1
            /\ UNCHANGED <<berror, bpc>>
    /\ UNCHANGED <<plugin, missing, mode, profile, mode_list, skipped,
                   report>>
    /\ UNCHANGED <<schedVars, peakVars, cfgVars, aggVars, runVars>>

\* After the loop, lines 551-561.
Report ==
    /\ bpc = "loop"
    /\ bi > Len(mode_list)
    /\ IF DOMAIN res_dict # {}
       THEN report' = [kind |-> "best guess", best_scaler |-> BestScaler,
                       res |-> res_dict[BestScaler],
                       ub_warning |-> ub_dict[BestScaler]]
       ELSE report' = [kind |-> "does not converge"]
    /\ bpc' = "done"
    /\ UNCHANGED <<plugin, missing, mode, profile, mode_list, bi, skipped,
                   evaluated, res_dict, mae_dict, ub_dict, berror>>
    /\ UNCHANGED <<schedVars, peakVars, cfgVars, aggVars, runVars>>

BatchNext == LoadModule \/ SelectMode \/ SkipScaler \/ RunScaler \/ Report

-----------------------------------------------------------------------------
(* One run: GetNative.run (lines 144-333) as called by getnative() (lines  *)
(* 486-506).  A scan (the frame loop with its scheduler) is one step that  *)
(* gives a curve or raises; the aspect ratio is an exact fraction.         *)

\* int(x) for x = n / d, d > 0: truncation towards zero
Trunc(n, d) == IF n >= 0 THEN n \div d ELSE -((-n) \div d)

\* int(round(x)) for x = n / d >= 0: to the nearest integer, a half to the
\* even one
Round(n, d) ==
    LET q == n \div d
        r == n % d
    IN IF 2 * r < d THEN q
       ELSE IF 2 * r > d THEN q + 1
       ELSE IF q % 2 = 0 THEN q ELSE q + 1

Min(a, b) == IF a <= b THEN a ELSE b

\* getw for self.ar = a, lines 335-341
WidthOf(a, h, only_even) ==
    LET w == Round(h * a[1], a[2]) IN
    Min(IF only_even THEN (w \div 2) * 2 ELSE w, rsrc.width)

getwOriginal(h, only_even) == WidthOf(ar, h, only_even)

\* self.getw(h, only_even)
getw(h, only_even) == WidthOf(self_ar, h, only_even)

\* hs, line 154
hs ==
    [i \in 1..((rargs.max_h - rargs.min_h) \div rargs.steps + 1) |->
        rargs.min_h + (i - 1) * rargs.steps]

\* the widths a height scan asks the oracle for, lines 169-170
ScanWidths == [i \in 1..Len(hs) |-> getw(hs[i], rsrc.width % 2 = 0)]

\* lines 205-207, with self.ar = n / d: (ar - 0.2) * h = (5n - d) h / (5d)
Window(h) ==
    LET n == self_ar[1]
        d == self_ar[2]
        w_min == Trunc((5 * n - d) * h, 5 * d)
        w_max == Min(Trunc(rsrc.width * 9, 10), Trunc((5 * n + d) * h, 5 * d))
    IN [h |-> h, w_min |-> w_min, w_max |-> w_max,
        w_sample_size |-> (w_max - w_min) \div rargs.steps]

\* len(range(w_min, w_max + 1, self.steps)), line 219
NumCandidates(win) ==
    IF win.w_max < win.w_min THEN 0
    ELSE (win.w_max - win.w_min) \div rargs.steps + 1

\* Floats that are not numbers: x / 0 is inf for x > 0 and nan for x = 0.
Inf == <<1, 0>>
NaN == <<0, 0>>

At(v, i) == IF i \in 1..Len(v) THEN v[i] ELSE 0

\* vals / np.convolve(vals, [0.5, 0., 0.5], 'same') for three or more
\* values (lines 248-249); dividing all values by w_sample_size > 0 first
\* changes no quotient
Normalised(v) ==
    [i \in 1..Len(v) |->
        LET den == At(v, i - 1) + At(v, i + 1) IN
        IF den = 0 THEN (IF v[i] = 0 THEN NaN ELSE Inf)
        ELSE Frac(2 * v[i], den)]

NormLess(x, y) == x # NaN /\ y # NaN /\ x[1] * y[2] < y[1] * x[2]

ArgLast(nv) == Len(nv) - 1

\* np.argmin, line 252 (0-based): the first nan if there is one, else the
\* first least value
ArgMin(nv) ==
    LET nans == {i \in 1..Len(nv) : nv[i] = NaN}
        least == {i \in 1..Len(nv) :
                    \A j \in 1..Len(nv) : ~NormLess(nv[j], nv[i])}
        pick == IF nans # {} THEN nans ELSE least
    IN (CHOOSE i \in pick : \A j \in pick : i <= j) - 1

\* the index of the width the refiner takes, lines 247-252: one value is
\* divided by w_sample_size = 0 and gives nan, whose argmin is 0
WidthArgMin(v) == IF Len(v) = 1 THEN 0 ELSE ArgMin(Normalised(v))

IsOverstretchedFinal(w, h) == 5 * self_ar[2] * w > h * (5 * self_ar[1] + self_ar[2])

\* w > h * (ar + 0.2), line 328, with ar = n / d
IsOverstretched(w, h) == 5 * ar[2] * w > h * (5 * ar[1] + ar[2])

\* h > args.max_h - args.ub_thr, line 494
NearUb(h) == h > rargs.max_h - rargs.ub_thr

\* The mean curves the height scans of a run may give: flat, one dip to 1,
\* or the scenario curve.
RunCurveTable ==
    [m \in CurveLens |->
        {vs \in CurveTable[m] :
            \/ vs = ScenarioCurve
            \/ /\ \A i \in 1..m : vs[i] \in {1, Baseline}
               /\ Cardinality({i \in 1..m : vs[i] # Baseline}) <= 1}]

RunCurves(m) == RunCurveTable[m]

Abs(x) == IF x < 0 THEN -x ELSE x

\* The summed curves a width scan over n candidates may give: a valley at
\* any candidate (rising, falling and V-shaped curves), or all zero.
WidthCurves(n) ==
    {[i \in 1..n |-> Abs(i - c[1]) + c[2]] : c \in (1..n) \X (0..MaxErr)}
        \cup {[i \in 1..n |-> 0]}

\* How a scan ends: with its curve, with the exception of a failed oracle
\* request out of task.result(), or with the ValueError of asyncio.wait on
\* an empty set.
ScanOutcomes == {"curve", "Error", "ValueError"}

RetryPhase(phase) == phase

\* An exception leaves run(): no later statement of it executes.
AfterRaise(phase) == "raised"

\* getnative() turns a ValueError into GetnativeException (lines 490-491);
\* any other exception passes through it.
Propagate(type, line) ==
    IF type = "ValueError" THEN Raise("GetnativeException", 491)
    ELSE Raise(type, line)

HeightRanges == {<<7, 12>>, <<6, 11>>, <<2, 12>>, <<11, 12>>,
                 <<2, CurveLen + 1>>}

Sources == {[width |-> 16, height |-> 12], [width |-> 24, height |-> 12],
            [width |-> 32, height |-> CurveLen + 1]}

\* The state at line 486: min_h < max_h <= src.height and args.ar is not 0.
\* The height ranges are those whose number of candidates has a curve in
\* CurveTable.
RunInit ==
    /\ rsrc \in Sources
    /\ rargs \in {a \in [min_h : {r[1] : r \in HeightRanges},
                          max_h : {r[2] : r \in HeightRanges},
                          steps : 1..MaxSteps,
                          passes : 0..(MaxPasses + 1),
                          ub_thr : {2, 10}] :
                     /\ <<a.min_h, a.max_h>> \in HeightRanges
                     /\ a.max_h <= rsrc.height
                     /\ (a.max_h - a.min_h) \div a.steps + 1 \in CurveLens}
    /\ self_ar \in {Frac(rsrc.width, rsrc.height), <<5, 2>>}
    /\ ar = <<0, 1>>
    /\ pass = 0
    /\ w_vals = <<>>
    /\ window = [h |-> 0, w_min |-> 0, w_max |-> 0, w_sample_size |-> 0]
    /\ best_w = 0
    /\ scan_widths = <<>>
    /\ trace = <<>>
    /\ returned = [kind |-> "none"]
    /\ rerror = NoError
    /\ rpc = "enter"
    \* self.resolutions = [] (line 141), self.steps, offset = self.min_h
    /\ steps = rargs.steps
    /\ offset = rargs.min_h
    /\ curve_len = Len(hs)
    /\ calls = 0
    /\ resolutions = <<>>
    /\ a_vals = <<>>
    /\ ratios = <<>>
    /\ bob_idx = -1
    /\ bob = -1
    /\ bob_resolution = -1
    /\ outcome = "none"

\* run() starts, lines 153-157.
EnterRun ==
    /\ rpc = "enter"
    /\ ar' = self_ar
    /\ pass' = 0
    /\ rpc' = IF 0 < rargs.passes THEN "height" ELSE "final"
    /\ UNCHANGED <<rsrc, rargs, self_ar, w_vals, window, best_w, scan_widths,
                   trace, returned, rerror>>
    /\ UNCHANGED <<schedVars, peakVars, cfgVars, aggVars, batchVars>>

\* A height scan and its analysis: lines 159-202 when next is "width",
\* lines 255-296 when next is "returned".
ScanHeights(name, next, line) ==
    /\ scan_widths' = ScanWidths
    /\ w_vals' = <<>>
    /\ \E o \in ScanOutcomes :
          IF o = "curve"
          THEN /\ \E vs \in RunCurves(curve_len) : analyze_results(vs)
               /\ IF outcome' = "ok"
                  THEN /\ rpc' = next
                       /\ trace' = Append(trace, name)
                       /\ UNCHANGED rerror
                  ELSE /\ rpc' = AfterRaise(rpc)
                       /\ rerror' = Propagate(outcome', 363)
                       /\ UNCHANGED trace
          ELSE /\ rpc' = AfterRaise(rpc)
               /\ rerror' = Propagate(o, line)
               /\ UNCHANGED <<peakVars, trace>>

HeightScan ==
    /\ rpc = "height"
    /\ ScanHeights("HeightScan", "width", 191)
    /\ UNCHANGED <<rsrc, rargs, self_ar, ar, pass, window, best_w, returned>>
    /\ UNCHANGED <<schedVars, cfgVars, aggVars, batchVars>>

\* The width phase of a pass, lines 204-253.
WidthRefine ==
    /\ rpc = "width"
    /\ LET h == bob_resolution
           win == Window(h)
           n == NumCandidates(win)
       IN
       /\ window' = win
       /\ IF n = 0
          THEN \* core.std.Splice of an empty clip list raises
               /\ rpc' = AfterRaise(rpc)
               /\ rerror' = Propagate("Error", 220)
               /\ UNCHANGED <<self_ar, pass, w_vals, best_w, trace>>
          ELSE \E o \in ScanOutcomes :
               IF o # "curve"
               THEN /\ rpc' = AfterRaise(rpc)
                    /\ rerror' = Propagate(o, 240)
                    /\ UNCHANGED <<self_ar, pass, w_vals, best_w, trace>>
               ELSE \E v \in WidthCurves(n) :
                    /\ w_vals' = v
                    /\ IF n = 2
                       THEN \* np.convolve(..., 'same') has max(2, 3) = 3
                            \* values: the division cannot broadcast
                            /\ rpc' = AfterRaise(rpc)
                            /\ rerror' = Propagate("ValueError", 249)
                            /\ UNCHANGED <<self_ar, pass, best_w, trace>>
                       ELSE /\ best_w' = WidthArgMin(v) * rargs.steps
                                            + win.w_min
                            /\ self_ar' = Frac(best_w', h)
                            /\ pass' = pass + 1
                            /\ rpc' = IF pass + 1 < rargs.passes
                                      THEN "height" ELSE "final"
                            /\ trace' = Append(trace, "WidthRefine")
                            /\ UNCHANGED rerror
    /\ UNCHANGED <<rsrc, rargs, ar, scan_widths, returned>>
    /\ UNCHANGED <<schedVars, peakVars, cfgVars, aggVars, batchVars>>

\* The last height scan and the return of run(), lines 255-333.
FinalConfirm ==
    /\ rpc = "final"
    /\ ScanHeights("FinalConfirm", "returned", 287)
    /\ IF rpc' = "returned"
       THEN LET h == bob_resolution'
                w == getw(h, TRUE)
            IN returned' = [kind |-> "run", h |-> h, w |-> w, mae |-> bob',
                            overstretched |-> IsOverstretched(w, h)]
       ELSE UNCHANGED returned
    /\ UNCHANGED <<rsrc, rargs, self_ar, ar, pass, window, best_w>>
    /\ UNCHANGED <<schedVars, cfgVars, aggVars, batchVars>>

\* getnative() after the run, lines 494-506.
Classify ==
    /\ rpc = "returned"
    /\ returned' = [kind |-> "Result", h |-> returned.h, w |-> returned.w,
                    mae |-> returned.mae,
                    overstretched |-> returned.overstretched,
                    near_ub |-> NearUb(returned.h)]
    /\ rpc' = "done"
    /\ UNCHANGED <<rsrc, rargs, self_ar, ar, pass, w_vals, window, best_w,
                   scan_widths, trace, rerror>>
    /\ UNCHANGED <<schedVars, peakVars, cfgVars, aggVars, batchVars>>

RunNext == EnterRun \/ HeightScan \/ WidthRefine \/ FinalConfirm \/ Classify

-----------------------------------------------------------------------------
(* The specifications                                                      *)

\* The scheduler before any frame is scanned.
SchedIdle ==
    /\ num_threads = 1
    /\ full_clip_len = 0
    /\ oracle = <<>>
    /\ frame_index = 0
    /\ requests = <<>>
    /\ tasks_pending = {}
    /\ futures = <<>>
    /\ completed = {}
    /\ vals = <<>>
    /\ curve = <<>>
    /\ failed = {}
    /\ exc = "none"
    /\ pc = "idle"

\* The peak detector before any call.
PeakIdle ==
    /\ steps = 1
    /\ offset = 0
    /\ curve_len = 0
    /\ calls = 0
    /\ resolutions = <<>>
    /\ a_vals = <<>>
    /\ ratios = <<>>
    /\ bob_idx = -1
    /\ bob = -1
    /\ bob_resolution = -1
    /\ outcome = "idle"

\* getnative() not entered.
CfgIdle ==
    /\ argv = [fstart |-> 0, fend |-> 0, fend_none |-> TRUE, fsamples |-> 0,
               min_h |-> -1, max_h |-> -1]
    /\ args = argv
    /\ env = [writable |-> TRUE, imwri |-> TRUE, descale |-> "ok"]
    /\ src = [num_frames |-> 0, height |-> 0]
    /\ frames = <<>>
    /\ scans = 0
    /\ error = NoError
    /\ gpc = "idle"

\* No frame loop entered.
AggIdle ==
    /\ agg_frames = <<>>
    /\ frame_vals = <<>>
    /\ sample_size = 0
    /\ sampled_vals = <<>>
    /\ agg_k = 0
    /\ mean_vals = <<>>
    /\ apc = "idle"

\* _getnative() not entered.
BatchIdle ==
    /\ plugin = TRUE
    /\ missing = {}
    /\ mode = "None"
    /\ profile = [stretched |-> {}, mae |-> "flat", near_ub |-> FALSE,
                  raises |-> "none"]
    /\ mode_list = <<>>
    /\ bi = 0
    /\ skipped = {}
    /\ evaluated = {}
    /\ res_dict = <<>>
    /\ mae_dict = <<>>
    /\ ub_dict = <<>>
    /\ report = [kind |-> "none"]
    /\ berror = NoError
    /\ bpc = "idle"

\* GetNative.run not entered.
RunIdle ==
    /\ rsrc = [width |-> 0, height |-> 0]
    /\ rargs = [min_h |-> 0, max_h |-> 0, steps |-> 1, passes |-> 0,
                ub_thr |-> 0]
    /\ self_ar = <<0, 1>>
    /\ ar = <<0, 1>>
    /\ pass = 0
    /\ w_vals = <<>>
    /\ window = [h |-> 0, w_min |-> 0, w_max |-> 0, w_sample_size |-> 0]
    /\ best_w = 0
    /\ scan_widths = <<>>
    /\ trace = <<>>
    /\ returned = [kind |-> "none"]
    /\ rerror = NoError
    /\ rpc = "idle"

InitSched == SchedInit /\ PeakIdle /\ CfgIdle /\ AggIdle /\ BatchIdle /\ RunIdle

SpecSched == InitSched /\ [][SchedNext]_vars

InitPeak == PeakInit /\ SchedIdle /\ CfgIdle /\ AggIdle /\ BatchIdle /\ RunIdle

SpecPeak == InitPeak /\ [][PeakNext]_vars

Init == CfgInit /\ SchedIdle /\ PeakIdle /\ AggIdle /\ BatchIdle /\ RunIdle

Next == CfgNext

Spec == Init /\ [][Next]_vars

InitAgg == AggInit /\ SchedIdle /\ PeakIdle /\ CfgIdle /\ BatchIdle /\ RunIdle

SpecAgg == InitAgg /\ [][AggNext]_vars

InitBatch == BatchInit /\ SchedIdle /\ PeakIdle /\ CfgIdle /\ AggIdle /\ RunIdle

SpecBatch == InitBatch /\ [][BatchNext]_vars

InitRun == RunInit /\ SchedIdle /\ CfgIdle /\ AggIdle /\ BatchIdle

SpecRun == InitRun /\ [][RunNext]_vars

-----------------------------------------------------------------------------
(* Claims about the evaluation scheduler, under SpecSched                  *)

Issued == {requests[i] : i \in 1..Len(requests)}

CollectedIndices == {vals[i][1] : i \in 1..Len(vals)}

\* requests issued and not yet collected
InFlight == Issued \ CollectedIndices

\* C1: in every reachable state of the scheduler, also right after a request
\* is issued, the number of in-flight requests (issued, not yet collected) is
\* at most core.num_threads + 2.
C1_InFlightBounded ==
    /\ Cardinality(InFlight) <= num_threads + 2
    /\ Cardinality(tasks_pending) <= num_threads + 2

\* The cap is reached: the loop waits with num_threads + 2 requests in flight.
C1_Witness == pc = "wait" /\ Cardinality(InFlight) = num_threads + 2

\* C2: the scheduler issues one request per candidate index 0..m-1, in order
\* and once each; no index is collected twice; and the curve it returns has
\* length m with every index collected exactly once.
C2_ExactlyOnce ==
    /\ requests = [i \in 1..frame_index |-> i - 1]
    /\ frame_index <= full_clip_len
    /\ \A i, j \in 1..Len(vals) : i # j => vals[i][1] # vals[j][1]
    /\ CollectedIndices \subseteq Issued
    /\ pc = "done" =>
         /\ Len(requests) = full_clip_len
         /\ Len(vals) = full_clip_len
         /\ CollectedIndices = 0..(full_clip_len - 1)
         /\ Len(curve) = full_clip_len

\* A curve is returned after the wait loop and the final drain both collected.
C2_Witness ==
    /\ pc = "done"
    /\ full_clip_len > num_threads + 2
    /\ curve # <<>>

\* C3: with every request completing without failure, the scheduler of a
\* list of m >= 1 candidates never ends in an error state, whatever the
\* completion timing.
C3_NeverFails == (full_clip_len >= 1 /\ failed = {}) => pc # "error"

\* C4: element i of the returned curve is the oracle's error for candidate i,
\* whatever the order in which the requests completed and were collected.
C4_CurveIsOracle ==
    pc = "done" => curve = [i \in 1..full_clip_len |-> oracle[i - 1]]

\* A curve is returned although results were collected out of index order,
\* with different errors.
C4_Witness ==
    /\ pc = "done"
    /\ \E i \in 1..(Len(vals) - 1) :
          /\ vals[i][1] > vals[i + 1][1]
          /\ vals[i][2] # vals[i + 1][2]

-----------------------------------------------------------------------------
(* Claims about the peak detector, under SpecPeak                          *)

\* C5: every analyze_results call returns a best-of-bests resolution; no
\* call, in particular none on a curve whose ratios are all <= 1 and none
\* made while self.resolutions is empty, ends without an answer or in error.
C5_AlwaysAnswers == calls > 0 => outcome = "ok"

\* C6: after any sequence of analyze_results calls of a run, no two entries
\* of self.resolutions are fewer than 20 scan positions apart.
C6_Separated ==
    \A i, j \in 1..Len(resolutions) :
        i # j => \/ resolutions[i] - resolutions[j] >= MinSep
                 \/ resolutions[j] - resolutions[i] >= MinSep

\* After the second call the set holds two entries and a peak of the last
\* curve was rejected for lying too close to one of them.
C6_Witness ==
    /\ calls = 2
    /\ Len(resolutions) >= 2
    /\ \E k \in 1..Len(Analysed[a_vals].differences) :
          LET current == IndexOf(ratios, Analysed[a_vals].differences[k]) IN
          /\ \A i \in 1..Len(resolutions) : resolutions[i] # current
          /\ \E i \in 1..Len(resolutions) : TooClose(resolutions[i], current)

\* C7: the error returned with the best-of-bests resolution is the curve's
\* value at the best-of-bests scan index k, where the resolution is
\* k * step + offset.
C7_BobIsErrorAtBest ==
    outcome = "ok" =>
        bob = a_vals[((bob_resolution - offset) \div steps) + 1]

-----------------------------------------------------------------------------
(* Claims about getnative()'s set-up, under Spec                           *)

\* min_h and max_h as the run will use them before the range checks
Effective == DefaultHeights(argv, src)

\* the end of the frame range in effect
EffectiveEnd == IF argv.fend_none THEN src.num_frames ELSE argv.fend

HeightsInvalid ==
    Effective.min_h >= src.height \/ Effective.min_h >= Effective.max_h

PastHeights == gpc \in {"construct", "run", "scanning"}

\* C8: a scan starts only with min_h < max_h <= source height; a
\* configuration with min_h >= source height or min_h >= max_h never gets
\* past the range checks and ends in GetnativeException once they are
\* reached; a max_h above the source height is clamped to it without error.
C8_ScanNeedsValidHeights ==
    /\ (gpc = "scanning" \/ scans > 0) =>
          /\ args.min_h < args.max_h
          /\ args.max_h <= src.height
          /\ args.min_h = Effective.min_h
    /\ HeightsInvalid =>
          /\ ~PastHeights
          /\ scans = 0
          /\ (gpc = "raised" /\ error.line \notin {445, 449, 79, 457, 468}) =>
                (error.type = "GetnativeException" /\ error.line \in {479, 481})
    /\ ~HeightsInvalid =>
          /\ error.line \notin {479, 481}
          /\ PastHeights =>
                args.max_h = IF Effective.max_h > src.height
                             THEN src.height ELSE Effective.max_h

\* A scan has started after max_h was clamped to the source height.
C8_Witness ==
    /\ gpc = "scanning"
    /\ Effective.max_h > src.height
    /\ args.max_h = src.height

\* C9: with a sample count n <= 0 or start >= end no scan executes.
C9_BadSamplingAborts ==
    (argv.fsamples <= 0 \/ argv.fstart >= EffectiveEnd) => scans = 0

\* line 468 has been executed without raising
FramesSelected ==
    \/ gpc \in {"heights", "construct", "run", "scanning"}
    \/ (gpc = "raised" /\ error.line \in {479, 481, 421})

FrameCase == FramesSelected /\ argv.fstart < EffectiveEnd /\ argv.fsamples >= 1

\* C10 as stated: for start < end and n >= 1 the frame selector returns n
\* strictly increasing indices in [start, end).
C10_StrictlyIncreasing ==
    FrameCase =>
        /\ Len(frames) = argv.fsamples
        /\ \A i \in 1..Len(frames) :
              argv.fstart <= frames[i] /\ frames[i] < EffectiveEnd
        /\ \A i \in 1..(Len(frames) - 1) : frames[i] < frames[i + 1]

\* C10 amended: for start < end and n >= 1 the frame selector returns n
\* indices in [start, end) that never decrease, and that strictly increase
\* when the range holds at least n frames (end - start >= n).
C10_FramesInRange ==
    FrameCase =>
        /\ Len(frames) = argv.fsamples
        /\ \A i \in 1..Len(frames) :
              argv.fstart <= frames[i] /\ frames[i] < EffectiveEnd
        /\ \A i \in 1..(Len(frames) - 1) : frames[i] <= frames[i + 1]
        /\ EffectiveEnd - argv.fstart >= argv.fsamples =>
              \A i \in 1..(Len(frames) - 1) : frames[i] < frames[i + 1]

\* Several frames were selected from a range that holds enough of them.
C10_Witness ==
    /\ FrameCase
    /\ argv.fsamples >= 2
    /\ EffectiveEnd - argv.fstart >= argv.fsamples
    /\ Len(frames) = argv.fsamples

-----------------------------------------------------------------------------
(* Claims about the ratio sequence, the candidate filter and the           *)
(* best-of-bests                                                           *)

\* C18: the ratio sequence of an analysed curve of length m has length m,
\* its first entry is 0, and entry i is vals[i-1] / vals[i] when vals[i] is
\* not 0 and 0 otherwise; no quotient has a zero denominator.
C18_RatioSequence ==
    calls > 0 =>
        /\ Len(ratios) = Len(a_vals)
        /\ ratios[1] = <<0, 1>>
        /\ \A i \in 2..Len(a_vals) :
              IF a_vals[i] = 0 THEN ratios[i] = <<0, 1>>
              ELSE /\ ratios[i][2] > 0
                   /\ ratios[i][1] * a_vals[i] = ratios[i][2] * a_vals[i - 1]

C18_Witness ==
    /\ calls > 0
    /\ \E i, j \in 2..Len(a_vals) :
          a_vals[i] = 0 /\ a_vals[j] # 0 /\ a_vals[j - 1] # a_vals[j]

MaxRatio(rs) ==
    CHOOSE x \in {rs[i] : i \in 1..Len(rs)} :
        \A i \in 1..Len(rs) : ~FracLess(x, rs[i])

\* the number of entries of rs strictly larger than x
LargerThan(rs, x) == Cardinality({i \in 1..Len(rs) : FracLess(x, rs[i])})

C19_Scenario ==
    (calls = 1 /\ a_vals = ScenarioCurve) =>
        /\ ratios = << <<0, 1>>, <<1, 1>>, <<1, 1>>, <<10, 1>>, <<1, 10>>,
                       <<1, 1>> >>
        /\ resolutions = <<3>>
        /\ steps = 1 => {resolutions[k] * steps + offset :
                            k \in 1..Len(resolutions)} = {503}

C19_AddedStep ==
    calls' = calls + 1 =>
        \A k \in (Len(resolutions) + 1)..Len(resolutions') :
            LET r == ratios'[resolutions'[k] + 1] IN
            /\ LargerThan(ratios', r) < TopN
            /\ Passes(r, MaxRatio(ratios'))

\* C19: one call adds an index only if its ratio is among the 5 largest
\* ratios of the curve and passes r - 1 > 0.33 * (maxRatio - 1); from the
\* empty set, the curve [1, 1, 1, 0.1, 1, 1] with step 1 and offset 500 gives
\* the ratios [0, 1, 1, 10, 0.1, 1] and exactly the resolution set {503}.
C19_OnlyTopPassing == []C19_Scenario /\ [][C19_AddedStep]_vars

\* A sixth passing ratio, MinSep or more away from every accepted index, is
\* left out by the cut to 5.
C19_Witness ==
    /\ calls = 1
    /\ resolutions # <<>>
    /\ \E i \in 1..Len(ratios) :
          /\ Passes(ratios[i], MaxRatio(ratios))
          /\ LargerThan(ratios, ratios[i]) >= TopN
          /\ \A k \in 1..Len(resolutions) : ~TooClose(resolutions[k], i - 1)

C19_ScenarioReached == calls = 1 /\ a_vals = ScenarioCurve /\ steps = 1

\* C20: the best-of-bests is an index of the accumulated set whose ratio in
\* the current curve is the largest of the set, reported as
\* index * step + offset.
C20_BestOfBests ==
    outcome = "ok" =>
        \E k \in 1..Len(resolutions) :
            /\ bob_resolution = resolutions[k] * steps + offset
            /\ \A j \in 1..Len(resolutions) :
                  ~FracLess(ratios[resolutions[k] + 1],
                            ratios[resolutions[j] + 1])

\* the best index was accepted by an earlier call and is not the first
C20_Witness ==
    /\ outcome = "ok"
    /\ calls = 2
    /\ bob_idx >= 1
    /\ \E j \in 1..Len(resolutions) :
          FracLess(ratios[resolutions[j] + 1],
                   ratios[resolutions[bob_idx + 1] + 1])

\* The scan indices (0-based) whose ratio passes the threshold of line 352.
PassingIndices ==
    {i \in 0..(Len(ratios') - 1) :
        Passes(ratios'[i + 1], MaxRatio(ratios'))}

Held(res) == {res[k] : k \in 1..Len(res)}

\* Two passing peaks of the curve just analysed, fewer than MinSep positions
\* apart, i with the strictly larger ratio, and no entry of the set, be it
\* there before the call or added by it, within MinSep positions of either
\* (the two themselves, when the call adds them, apart).
TwinPeaks(i, j) ==
    /\ i \in PassingIndices /\ j \in PassingIndices
    /\ i # j
    /\ i - j < MinSep /\ j - i < MinSep
    /\ FracLess(ratios'[j + 1], ratios'[i + 1])
    /\ \A r \in Held(resolutions) \cup (Held(resolutions') \ {i, j}) :
          ~TooClose(r, i) /\ ~TooClose(r, j)

C21_Step ==
    calls' = calls + 1 =>
        \A i, j \in PassingIndices :
            TwinPeaks(i, j) =>
                /\ i \in Held(resolutions')
                /\ j \notin Held(resolutions')

\* C21: when two ratio peaks of one curve both pass the threshold, lie fewer
\* than 20 positions apart and neither is within 20 positions of an earlier
\* accumulated entry, the call adds the one with the larger ratio to
\* self.resolutions and does not add the other.
C21_LargerOfTwinsAdded == [][C21_Step]_vars

\* The same for a curve with at most 5 passing ratios, no two of them equal.
C21_DistinctStep ==
    (calls' = calls + 1
        /\ Cardinality(PassingIndices) <= TopN
        /\ \A i, j \in PassingIndices : i # j => ratios'[i + 1] # ratios'[j + 1])
    => \A i, j \in PassingIndices :
            TwinPeaks(i, j) =>
                /\ i \in Held(resolutions')
                /\ j \notin Held(resolutions')

C21_DistinctRatios == [][C21_DistinctStep]_vars

\* A twin curve without the early dip has been analysed first: the larger
\* of its two peaks is in the set and the other is not.
C21_TwinsReached ==
    /\ calls = 1
    /\ a_vals \in TwinCurves(curve_len)
    /\ a_vals[2] = 12
    /\ Len(resolutions) = 1

\* Under SpecPeak, for the full family of curves: every entry of
\* self.resolutions is a position of the curve other than the first, and a
\* returned best-of-bests lies above the offset and within the scan.
PeakIndicesValid ==
    /\ \A k \in 1..Len(resolutions) : resolutions[k] \in 1..(curve_len - 1)
    /\ (calls > 0 /\ outcome = "ok") =>
          /\ offset < bob_resolution
          /\ bob_resolution <= offset + (curve_len - 1) * steps

PeakLastIndexReached ==
    /\ calls = 2 /\ outcome = "ok"
    /\ \E k \in 1..Len(resolutions) : resolutions[k] = curve_len - 1
    /\ \E k \in 1..Len(resolutions) : resolutions[k] = 1

-----------------------------------------------------------------------------
(* Claims about the aggregation over frames                                *)

\* the sum of entry i over the frames 1..n, taken in ascending frame order
RECURSIVE SumOver(_, _)
SumOver(n, i) == IF n = 0 THEN 0 ELSE SumOver(n - 1, i) + frame_vals[n][i]

\* C17: whatever the order in which the frames are processed, the mean curve
\* is the elementwise sum of the frames' curves divided by the number of
\* frames.
C17_OrderIndependent ==
    apc = "done" =>
        mean_vals = [i \in 1..2 |-> Frac(SumOver(sample_size, i), sample_size)]

\* frames with different curves, processed out of ascending order
C17_Witness ==
    /\ apc = "done"
    /\ sample_size >= 3
    /\ agg_frames[1] > agg_frames[2]
    /\ \A f, g \in 1..sample_size : f # g => frame_vals[f] # frame_vals[g]

-----------------------------------------------------------------------------
(* Claims about the kernel batch                                           *)

Requested == {ModeList(mode)[i] : i \in 1..Len(ModeList(mode))}

\* the oracle cannot descale with the scaler's kernel
Unavailable(scaler) == ~plugin \/ scaler.kernel \in missing

BatchOver == bpc \in {"done", "raised"}

\* C14: in a batch mode where some requested kernel is unavailable and
\* another is available (and no run fails), the batch completes, the
\* unavailable kernels are skipped and every available kernel of the batch
\* is evaluated.
C14_SkipsUnavailableOnly ==
    (/\ BatchOver
     /\ mode # "None"
     /\ profile.raises = "none"
     /\ \E scaler \in Requested : Unavailable(scaler)
     /\ \E scaler \in Requested : ~Unavailable(scaler))
    => /\ bpc = "done"
       /\ \A scaler \in Requested :
             IF Unavailable(scaler) THEN scaler \in skipped
             ELSE scaler \in evaluated

Overstretched(scaler) == Family(KernelOf(scaler)) \in profile.stretched

\* C15: a batch whose loop is over reports a best guess exactly when some
\* evaluated kernel's result was not overstretched and reports no
\* convergence otherwise; nothing raises once the loop is over.
C15_NoConvergenceIsReported ==
    /\ bpc = "done" =>
          /\ report.kind = "best guess"
                <=> \E scaler \in evaluated : ~Overstretched(scaler)
          /\ report.kind = "does not converge"
                <=> \A scaler \in evaluated : Overstretched(scaler)
    /\ bpc = "raised" => bi <= Len(mode_list)

\* several kernels run, all overstretched
C15_Witness ==
    /\ bpc = "done"
    /\ report.kind = "does not converge"
    /\ Cardinality(evaluated) > 1

\* every kernel skipped
C15_WitnessSkipped ==
    /\ bpc = "done"
    /\ report.kind = "does not converge"
    /\ Cardinality(skipped) > 1

-----------------------------------------------------------------------------
(* Claims about the phases of a run, its flags and the width refinement    *)

\* (HeightScan, WidthRefine) P times, then FinalConfirm
Expected(P) ==
    [i \in 1..(2 * P + 1) |->
        IF i = 2 * P + 1 THEN "FinalConfirm"
        ELSE IF i % 2 = 1 THEN "HeightScan" ELSE "WidthRefine"]

IsPrefix(s, t) == Len(s) <= Len(t) /\ \A i \in 1..Len(s) : s[i] = t[i]

RunOver == rpc \in {"returned", "done"}

\* the aspect ratio the last width phase produced (window is also set by a
\* width phase that raises, which leaves best_w as it was)
RefinedAr == Frac(best_w, window.h)

\* C11: the phases of a run of P passes are executed in the order
\* (HeightScan, WidthRefine) P times and then FinalConfirm, a run that
\* returns has executed all of them (P + 1 height scans, P width
\* refinements), and a height scan that follows a width refinement asks for
\* the widths of the aspect ratio that refinement produced.
C11_PhaseOrder ==
    /\ IsPrefix(trace, Expected(rargs.passes))
    /\ RunOver => trace = Expected(rargs.passes)
    /\ (Len(trace) > 1 /\ trace[Len(trace)] # "WidthRefine"
            /\ rpc # "raised") =>
          scan_widths = [i \in 1..Len(hs) |->
                            WidthOf(RefinedAr, hs[i], rsrc.width % 2 = 0)]

\* two passes, and a refinement that changed the widths of the next scan
C11_Witness ==
    /\ rpc = "done"
    /\ rargs.passes = 2
    /\ scan_widths # [i \in 1..Len(hs) |->
                          WidthOf(ar, hs[i], rsrc.width % 2 = 0)]

\* C12: overstretched holds exactly when the returned width, the integer
\* nearest to final ar * final height made even and capped at the source
\* width, exceeds final height * (ar at the start of the run + 0.2);
\* near_ub holds exactly when final height > max_h - ub_thr.
C12_Flags ==
    rpc = "done" =>
        LET h == returned.h IN
        /\ \E w \in 0..(h * self_ar[1] + 1) :
              /\ Abs(2 * (w * self_ar[2] - h * self_ar[1])) <= self_ar[2]
              /\ returned.w = Min(w - (w % 2), rsrc.width)
        /\ returned.overstretched
              <=> 5 * ar[2] * returned.w > h * (5 * ar[1] + ar[2])
        /\ returned.near_ub <=> h > rargs.max_h - rargs.ub_thr

\* an overstretched result below the upper bound, after the ratio moved
C12_Witness ==
    /\ rpc = "done"
    /\ returned.overstretched
    /\ ~returned.near_ub
    /\ self_ar # ar

C12_WitnessNearUb ==
    /\ rpc = "done"
    /\ ~returned.overstretched
    /\ returned.near_ub
    /\ rargs.ub_thr = 2

\* an oracle request of a scan failed
OracleFailed == rerror.type = "Error" /\ rerror.line \in {191, 240, 287}

\* The scheduler's part of C13, under SpecSched: a scan with a failed
\* request returns no curve, and collecting the failed task ends the loop
\* with the oracle's exception.
SchedFailureRaises ==
    /\ pc = "done" => failed = {}
    /\ exc = "Error" => pc = "error" /\ curve = <<>>
    /\ (failed # {} /\ failed \cap tasks_pending = {}) => exc = "Error"

SchedFailureReached == exc = "Error" /\ Len(vals) > 0

\* C13: once an oracle request of a scan has failed the run is over with
\* that error: nothing is returned, and no phase, the failed one included,
\* executes afterwards.
C13_OracleFailureIsFatal ==
    /\ [](OracleFailed => rpc = "raised" /\ returned.kind = "none")
    /\ [][~OracleFailed]_vars

\* the width scan of the second pass fails
C13_Witness ==
    /\ OracleFailed
    /\ rerror.line = 240
    /\ Len(trace) = 3

\* a width phase has scanned its candidates
WidthScanned == w_vals # <<>>

StrictlyDecreasing(nv) ==
    \A i \in 1..(Len(nv) - 1) : NormLess(nv[i + 1], nv[i])

\* C16: after a width scan over a non-empty window the refiner has taken
\* the width w_min + k * step of an index k that minimises the normalised
\* curve, the width lies in [w_min, w_max], self.ar is that width over h,
\* and for a strictly decreasing normalised curve it is the last candidate.
C16_RefinerSelects ==
    (WidthScanned /\ NumCandidates(window) > 0) =>
        /\ rpc # "raised"
        /\ window.w_min <= best_w /\ best_w <= window.w_max
        /\ self_ar = Frac(best_w, window.h)
        /\ \E k \in 0..(Len(w_vals) - 1) :
              /\ best_w = window.w_min + k * rargs.steps
              /\ \A j \in 1..Len(w_vals) :
                    ~NormLess(Normalised(w_vals)[j], Normalised(w_vals)[k + 1])
              /\ StrictlyDecreasing(Normalised(w_vals))
                    => k = Len(w_vals) - 1

\* the claim of C16 for windows of any size but two candidates
C16_ExceptTwo ==
    NumCandidates(window) # 2 => C16_RefinerSelects

C16_DecreasingReached ==
    /\ WidthScanned
    /\ Len(w_vals) >= 3
    /\ rpc # "raised"
    /\ StrictlyDecreasing(Normalised(w_vals))

\* C22: scan index 0 is never added to self.resolutions and every entry is
\* a position of the height curve, so every best-of-bests height a height
\* scan returns satisfies min_h < height <= max_h.
C22_HeightInRange ==
    /\ \A k \in 1..Len(resolutions) : resolutions[k] \in 1..(Len(hs) - 1)
    /\ (calls > 0 /\ outcome = "ok") =>
          rargs.min_h < bob_resolution /\ bob_resolution <= rargs.max_h
    /\ returned.kind # "none" =>
          rargs.min_h < returned.h /\ returned.h <= rargs.max_h

\* A run of one pass or more has returned max_h, the height of the last
\* position of the curve.
C22_Witness ==
    /\ rpc = "done"
    /\ pass >= 1
    /\ returned.h = rargs.max_h
    /\ \E k \in 1..Len(resolutions) : resolutions[k] = Len(hs) - 1

\* A run has returned the height of scan index 1, the lowest it can.
C22_WitnessLowest ==
    /\ rpc = "done"
    /\ returned.h = rargs.min_h + rargs.steps
    /\ Len(hs) > 2

\* Under SpecPeak, for the full family of curves: a call leaves the entries
\* self.resolutions had in place and appends at most 5.
PeakSetGrowsStep ==
    /\ IsPrefix(resolutions, resolutions')
    /\ Len(resolutions') <= Len(resolutions) + TopN

PeakSetGrows == [][PeakSetGrowsStep]_vars

\* The first call was given a curve with one peak and the second a curve
\* with TopN + 1 passing peaks, MinSep apart, the smallest of them on the
\* entry of the first call: the second call has added TopN entries.
PeakFiveAdded ==
    /\ calls = 2
    /\ Len(resolutions) = TopN + 1
    /\ Cardinality({i \in 1..Len(ratios) :
                      Passes(ratios[i], MaxRatio(ratios))}) = TopN + 1

\* C23: across the analyze_results calls of one run self.resolutions only
\* grows: a call keeps every entry in its place and appends at most 5, and
\* the width refinement phase leaves the set as it is.
C23_Step ==
    /\ IsPrefix(resolutions, resolutions')
    /\ Len(resolutions') <= Len(resolutions) + TopN
    /\ rpc = "width" => resolutions' = resolutions

C23_SetOnlyGrows == [][C23_Step]_vars

\* The height scan of the second pass, after a width refinement, has added
\* a second entry to the one of the first pass.
C23_Witness ==
    /\ pass = 1
    /\ calls = 2
    /\ Len(resolutions) = 2
    /\ trace = <<"HeightScan", "WidthRefine", "HeightScan">>

WidthPhaseEntered == window.h # 0

\* C24: whenever the width phase of a pass runs, its window holds at least
\* one candidate width: w_min <= w_max.
C24_WindowNeverEmpty == WidthPhaseEntered => window.w_min <= window.w_max

\* The same for the runs that start from the aspect ratio of the source.
C24_SourceRatio ==
    (WidthPhaseEntered /\ ar = Frac(rsrc.width, rsrc.height)) =>
        window.w_min <= window.w_max

\* The same for the first pass of the runs that start from the aspect
\* ratio of a source no wider than twice its height.
C24_FirstPass ==
    (/\ WidthPhaseEntered
     /\ pass = 0
     /\ ar = Frac(rsrc.width, rsrc.height)
     /\ rsrc.width <= 2 * rsrc.height) =>
        window.w_min <= window.w_max

C24_FirstPassReached ==
    /\ pass = 1
    /\ ar = Frac(rsrc.width, rsrc.height)
    /\ window.w_min = window.w_max

=============================================================================
